---------------------------- MODULE Spec2Model ----------------------------
(***************************************************************************)
(* Circle packing on a binary mask: pack_circles/pack_circles.py.          *)
(*                                                                         *)
(* The model follows run(): a CircleCloud is constructed from a mask and   *)
(* the command line options, place_circles samples the radius sequence and *)
(* runs the placement loop, draw_svg writes the drawing.  One action per   *)
(* outcome of a loop iteration; an exception leaves the program in         *)
(* pc = "raised" with the exception named in err.                          *)
(*                                                                         *)
(* Lengths are integers.  A radius drawn by the sampler is a float: it is   *)
(* kept as <<whole, frac>>, its integer part and whether it has a          *)
(* fractional part, and Circle.__init__ truncates it with int().           *)
(* Coordinates are pixels, origin upper left.  An image is its row-major    *)
(* array: pixel (x, y) is entry y * Width + x + 1.                         *)
(***************************************************************************)
EXTENDS Integers, Sequences, FiniteSets

\* ------------------------------------------------------------ bounds
Width == 4          \* mask width in pixels
Height == 3         \* mask height in pixels
SmallN == 2         \* short runs request 0..SmallN circles
LongExtra == 1      \* long runs request UpdatePeriod + LongExtra circles
MaxAttempts == 1    \* max_attempts ranges over 0..MaxAttempts
MaxOffset == 1      \* offset ranges over 0..MaxOffset
MaxBig == 1         \* a sampled radius sequence starts with at most MaxBig larger radii
MaxPathLen == 5     \* an output path has at most MaxPathLen characters
MaxField == 1       \* width and height of an arrow field range over 0..MaxField

\* --------------------------------------------------- program constants
White == 255        \* allowed pixel, and the colour cv2.circle draws with
Black == 0          \* forbidden pixel
UpdatePeriod == 100 \* "c%100 == 0"
PoolFactor == 10    \* nradii = int((r_max-r_min) * 10)
G0Speed == 4000     \* --g0_speed, default
G1Speed == 1500     \* --g1_speed, default
RectG0Speed == 3000 \* get_gcode_rectangle: s0
RectG1Speed == 1000 \* get_gcode_rectangle: s1
PenUpS == 120       \* --pen_up, default: "M3 S120"
PenDownS == 10      \* --pen_down, default: "M3 S10"
ArrowLength == 3    \* --arrow_params, default length

VARIABLES
    maskimg,        \* self.maskimg: row-major array of Black | White
    maskcoords,     \* self.maskcoords: sequence of allowed <<x, y>>, row-major
    n,              \* self.n
    max_attempts,   \* self.max_attempts
    offset,         \* self.offset
    maskupdate,     \* self.maskupdate
    r_min, r_max,   \* arguments of place_circles
    circles,        \* self.circles: sequence of Circle records
    radii,          \* place_circles: radii (descending), each <<whole, frac>>
    c,              \* place_circles: counter for circles (slot index)
    a,              \* place_circles: attempts for the current circle
    pc,             \* "start" | "loop" | "placed" | "saved" | "raised"
    err,            \* the exception raised, "none" otherwise
    dwg,            \* the drawing handed to dwg.save(), <<>> before
    writes,         \* number of dwg.save() calls
    output,         \* args.output: a string of characters, <<>> when not given
    fout,           \* run: the output file name handed to draw_svg
    outfn,          \* draw_svg: the file name of the drawing, <<>> before
    mask0,          \* history: the mask as built by the constructor
    sampled,        \* history: candidates constructed for the current slot
    abandoned,      \* history: slots given up
    updates,        \* history: runs of update_mask_coordinates
    placedAtUpdate, \* history: len(self.circles) at the last update, -1 before
    self, other,    \* overlaps_other: the two circles of a call
    overlaps,       \* overlaps_other: the value returned
    config,         \* perlin_noise_arrows.main: the parsed command line
    angles,         \* main: the direction of every arrow, row-major
    arrow_counter,  \* Arrow.arrow_counter
    arrow_dwg,      \* main: dwg, the groups added to the SVG drawing
    gcode_string    \* main: the G-code, a sequence of lines

\* The state of a run of pack_circles.py, without pc and err.
cloudData == <<maskimg, maskcoords, n, max_attempts, offset, maskupdate, r_min, r_max,
               circles, radii, c, a, dwg, writes, output, fout, outfn,
               mask0, sampled, abandoned, updates, placedAtUpdate>>

\* The state of a call of Circle.overlaps_other.
overlapVars == <<self, other, overlaps>>

\* The state of a run of perlin_noise_arrows.py, without pc and err.
arrowVars == <<config, angles, arrow_counter, arrow_dwg, gcode_string>>

\* What a run of pack_circles.py leaves alone.
otherVars == <<overlapVars, arrowVars>>

vars == <<cloudData, pc, err, otherVars>>

\* ------------------------------------------------------------ helpers
Max(i, j) == IF i >= j THEN i ELSE j
Min(i, j) == IF i <= j THEN i ELSE j

\* The entries of an image, and the entry of pixel (x, y).
Pixels == 1 .. Width * Height
Pix(x, y) == y * Width + x + 1
XOf(p) == (p - 1) % Width
YOf(p) == (p - 1) \div Width

\* yvals, xvals = np.where(img == 255); list(zip(xvals, yvals)): the allowed
\* <<x, y>>, in row-major order.
IsAllowed(t) == t[2] = White

MaskCoords(img) ==
    LET tagged == [p \in Pixels |-> <<p, img[p]>>]
        white  == SelectSeq(tagged, IsAllowed)
    IN  [i \in 1 .. Len(white) |-> <<XOf(white[i][1]), YOf(white[i][1])>>]

\* ------------------------------------------------------------ cv2.circle
\* One horizontal run of the filled circle, clipped to the image.
HLine(x1, x2, y) ==
    IF y < 0 \/ y >= Height THEN {}
    ELSE {Pix(x, y) : x \in Max(x1, 0) .. Min(x2, Width - 1)}

\* The midpoint loop of a filled circle (thickness -1, line type 8, shift 0):
\* four runs per step, then dy++, err += plus, plus += 2, and dx-- when err > 0.
RECURSIVE CircleLoop(_, _, _, _, _, _, _)
CircleLoop(cx, cy, dx, dy, e, plus, minus) ==
    IF dx < dy THEN {}
    ELSE LET runs  == HLine(cx - dx, cx + dx, cy - dy) \cup HLine(cx - dx, cx + dx, cy + dy)
                      \cup HLine(cx - dy, cx + dy, cy - dx) \cup HLine(cx - dy, cx + dy, cy + dx)
             e1    == e + plus
             carry == e1 > 0
         IN  runs \cup CircleLoop(cx, cy,
                                  IF carry THEN dx - 1 ELSE dx,
                                  dy + 1,
                                  IF carry THEN e1 - minus ELSE e1,
                                  plus + 2,
                                  IF carry THEN minus - 2 ELSE minus)

RVals == 1 .. 2     \* values of --r_min and --r_max

\* The midpoint loop run from dx = radius, for every centre and radius in use.
DiskTable ==
    [x \in 0 .. Width - 1 |-> [y \in 0 .. Height - 1 |-> [radius \in RVals |->
        CircleLoop(x, y, radius, 0, 0, 1, 2 * radius - 1)]]]

\* The pixels cv2.circle(img, (x, y), radius, 255, -1) sets in a Width x Height image.
Disk(x, y, radius) == DiskTable[x][y][radius]

\* img with the disk drawn on it in white.
DrawCircle(img, x, y, radius) ==
    LET disk == Disk(x, y, radius)
    IN  [p \in Pixels |-> IF p \in disk THEN White ELSE img[p]]

\* ------------------------------------------------------------ Circle
\* Circle.__init__: x, y = int(center), radius = int(r).
Circle(center, r, off) ==
    [x |-> center[1], y |-> center[2], radius |-> r[1], offset |-> off]

\* Squared distance of the centers.
Dist2(A, B) == (A.x - B.x) * (A.x - B.x) + (A.y - B.y) * (A.y - B.y)

\* np.sqrt of an integer, as a float <<whole, frac>>, for every squared
\* distance of two pixels.
MaxDist2 == (Width - 1) * (Width - 1) + (Height - 1) * (Height - 1)

SqrtTable ==
    [k \in 0 .. MaxDist2 |->
        LET f == CHOOSE g \in 0 .. k : g * g <= k /\ k < (g + 1) * (g + 1)
        IN  <<f, f * f # k>>]

Sqrt(k) == SqrtTable[k]

\* Mutant of FloatLess: "<=" in place of "<".
FloatLessOrEqual(v, k) == v[1] < k \/ (v[1] = k /\ ~v[2])

\* v < k for a float v and an integer k.
FloatLess(v, k) == v[1] < k

\* Mutant of OverlapsOther: the offset is left out of the sum.
OverlapsOtherNoOffset(A, B) ==
    FloatLess(Sqrt(Dist2(A, B)), B.radius + A.radius)

\* Circle.overlaps_other: c1c2 < (other.radius+self.radius + self.offset),
\* A the circle called, B the other one.
OverlapsOther(A, B) ==
    FloatLess(Sqrt(Dist2(A, B)), B.radius + A.radius + A.offset)

\* np.sum of an image with pixels 0 and 255.
SumImg(img) == White * Cardinality({p \in Pixels : img[p] = White})

\* np.zeros(maskimg.shape) with the circle drawn on it, for every centre and radius in use.
CircleMaskTable ==
    [x \in 0 .. Width - 1 |-> [y \in 0 .. Height - 1 |-> [radius \in RVals |->
        DrawCircle([p \in Pixels |-> Black], x, y, radius)]]]

\* u & v for two pixel values.
BitAnd(u, v) == IF u = White /\ v = White THEN White ELSE Black

\* np.sum(img & circlemask)
SumAnd(img, circlemask) ==
    White * Cardinality({p \in Pixels : BitAnd(img[p], circlemask[p]) = White})

\* Circle.is_inside_mask
IsInsideMask(circle, img) ==
    SumImg(CircleMaskTable[circle.x][circle.y][circle.radius])
        = SumAnd(img, CircleMaskTable[circle.x][circle.y][circle.radius])


\* ------------------------------------------------------------ CircleCloud
\* Masks as the constructor leaves them after thresholding (and inversion).
\* TopRows allows rows 0 and 1, TopLeft the 4 x 2 block at the origin.
NoneAllowed == [p \in Pixels |-> Black]
AllAllowed  == [p \in Pixels |-> White]
TopRows     == [p \in Pixels |-> IF YOf(p) <= 1 THEN White ELSE Black]
TopLeft     == [p \in Pixels |-> IF XOf(p) <= 3 /\ YOf(p) <= 1 THEN White ELSE Black]

Masks == {NoneAllowed, AllAllowed, TopRows}

\* The command lines the model runs: short runs, which end before slot
\* UpdatePeriod and so never read maskupdate, and long runs that get past it.
ShortRuns == [mask : Masks, n : 0 .. SmallN, max_attempts : 0 .. MaxAttempts,
              offset : 0 .. MaxOffset, maskupdate : {FALSE},
              r_min : RVals, r_max : RVals, output : {<<>>}]

LongRuns == [mask : {TopLeft}, n : {UpdatePeriod + LongExtra}, max_attempts : {0},
             offset : {0}, maskupdate : BOOLEAN, r_min : {1}, r_max : {2}, output : {<<>>}]

\* Mutant of BurnCircles: the circles are drawn upside down, at (x, Height - 1 - y).
RECURSIVE BurnCirclesFlipped(_, _)
BurnCirclesFlipped(img, cs) ==
    IF cs = <<>> THEN img
    ELSE BurnCirclesFlipped(DrawCircle(img, Head(cs).x, Height - 1 - Head(cs).y, Head(cs).radius),
                            Tail(cs))

\* CircleCloud.update_mask_coordinates: the mask with every placed circle drawn on it.
RECURSIVE BurnCircles(_, _)
BurnCircles(img, cs) ==
    IF cs = <<>> THEN img
    ELSE BurnCircles(DrawCircle(img, Head(cs).x, Head(cs).y, Head(cs).radius), Tail(cs))

UpdateMaskCoordinates == BurnCircles(maskimg, circles)

\* ------------------------------------------------------------ file names
\* A file name is the sequence of its characters.
Chars == {".", "/", "s", "v", "g"}

Paths == UNION {[1 .. k -> Chars] : k \in 0 .. MaxPathLen}

DotSvg == <<".", "s", "v", "g">>

\* str.endswith
EndsWith(p, suffix) ==
    /\ Len(p) >= Len(suffix)
    /\ SubSeq(p, Len(p) - Len(suffix) + 1, Len(p)) = suffix

\* str.rfind, counting from 1: 0 when ch is not in p.
RFind(p, ch) ==
    LET at == {i \in 1 .. Len(p) : p[i] = ch}
    IN  IF at = {} THEN 0 ELSE CHOOSE i \in at : \A k \in at : k <= i

\* os.path.splitext: <<root, ext>>, split at the last dot of the last
\* component, unless only dots stand before it in that component.
SplitExt(p) ==
    LET sepIndex == RFind(p, "/")
        dotIndex == RFind(p, ".")
    IN  IF dotIndex > sepIndex /\ \E k \in sepIndex + 1 .. dotIndex - 1 : p[k] # "."
        THEN <<SubSeq(p, 1, dotIndex - 1), SubSeq(p, dotIndex, Len(p))>>
        ELSE <<p, <<>>>>

\* 'circles_{}_ma-{}_n-{}.svg'.format(outbase, max_attempts, n): the formatted
\* fields stand before the literal ".svg"; the name is cut down to "circles".
DefaultName == <<"c", "i", "r", "c", "l", "e", "s">> \o DotSvg

\* run: fout.
OutputName(out) ==
    IF out = <<>> THEN DefaultName
    ELSE IF ~EndsWith(SplitExt(out)[2], DotSvg) THEN SplitExt(out)[1] \o DotSvg
    ELSE out

\* draw_svg: outfn as handed to svgwrite.Drawing.
SvgName(fn) ==
    IF ~EndsWith(SplitExt(fn)[2], DotSvg) THEN SplitExt(fn)[1] \o DotSvg
    ELSE fn

\* ------------------------------------------------------------ run
\* run(): the cloud as constructed, with max_attempts, offset, maskupdate set.
Constructed(s) ==
        /\ maskimg = s.mask
        /\ maskcoords = MaskCoords(s.mask)
        /\ mask0 = s.mask
        /\ n = s.n
        /\ max_attempts = s.max_attempts
        /\ offset = s.offset
        /\ maskupdate = s.maskupdate
        /\ r_min = s.r_min
        /\ r_max = s.r_max
        /\ circles = <<>>
        /\ radii = <<>>
        /\ c = 0
        /\ a = 0
        /\ pc = "start"
        /\ err = "none"
        /\ dwg = <<>>
        /\ writes = 0
        /\ output = s.output
        /\ fout = OutputName(s.output)
        /\ outfn = <<>>
        /\ sampled = 0
        /\ abandoned = 0
        /\ updates = 0
        /\ placedAtUpdate = -1

\* No run of pack_circles.py: the cloud of a mask without pixels to place on.
CloudIdle ==
    /\ maskimg = NoneAllowed
    /\ maskcoords = <<>>
    /\ mask0 = NoneAllowed
    /\ n = 0
    /\ max_attempts = 0
    /\ offset = 0
    /\ maskupdate = FALSE
    /\ r_min = 1
    /\ r_max = 1
    /\ circles = <<>>
    /\ radii = <<>>
    /\ c = 0
    /\ a = 0
    /\ err = "none"
    /\ dwg = <<>>
    /\ writes = 0
    /\ output = <<>>
    /\ fout = <<>>
    /\ outfn = <<>>
    /\ sampled = 0
    /\ abandoned = 0
    /\ updates = 0
    /\ placedAtUpdate = -1

\* No call of overlaps_other outside the placement loop.
NoCircle == [x |-> 0, y |-> 0, radius |-> 0, offset |-> 0]

OverlapIdle ==
    /\ self = NoCircle
    /\ other = NoCircle
    /\ overlaps = FALSE

\* No run of perlin_noise_arrows.py.
NoConfig ==
    [width |-> 0, height |-> 0, stepsize |-> 1, offset |-> <<0, 0>>, border |-> 0,
     rect_only |-> TRUE, tiplength |-> 0, tiptype |-> "rel"]

ArrowsIdle ==
    /\ config = NoConfig
    /\ angles = <<>>
    /\ arrow_counter = 0
    /\ arrow_dwg = <<>>
    /\ gcode_string = <<>>

OthersIdle == OverlapIdle /\ ArrowsIdle

Init == OthersIdle /\ \E s \in ShortRuns \cup LongRuns : Constructed(s)

\* The runs whose termination is checked: those on a mask with forbidden pixels.
FairRuns == {s \in ShortRuns \cup LongRuns : s.mask # AllAllowed}

InitFair == OthersIdle /\ \E s \in FairRuns : Constructed(s)

\* Runs that place no circle, with every output path of up to MaxPathLen characters.
PathRuns == [mask : {NoneAllowed}, n : {0}, max_attempts : {0}, offset : {0},
             maskupdate : {FALSE}, r_min : {1}, r_max : {2}, output : Paths]

InitPath == OthersIdle /\ \E s \in PathRuns : Constructed(s)

\* ------------------------------------------------------------ place_circles
\* nradii = int((r_max-r_min) * 10)
NRadii == (r_max - r_min) * PoolFactor

\* random.uniform(r_min, r_max): a float in [r_min, r_max].
PoolVals == ((r_min .. r_max - 1) \X BOOLEAN) \cup {<<r_max, FALSE>>}

\* v >= w for two floats.
FloatGeq(v, w) == v[1] > w[1] \/ (v[1] = w[1] /\ (v[2] \/ ~w[2]))

\* np.random.choice(rpool, size=n, p=p): n pool values in the order drawn.
\* Every p is positive, so every pool value can be drawn.  Enumerated: k draws
\* of a larger value in a row, at the front, in the middle or at the back of
\* the draws of a smaller one.
Choices ==
    {[i \in 1 .. n |-> IF t[2] < i /\ i <= t[2] + t[1] THEN t[3] ELSE t[4]] :
        t \in {u \in (0 .. Min(n, MaxBig)) \X (0 .. n) \X PoolVals \X PoolVals :
                  /\ u[2] \in {0, (n - u[1]) \div 2, n - u[1]}
                  /\ FloatGeq(u[3], u[4])}}

\* The entries of s equal to v, and the others.
Equal(s, v) == LET Is(w) == w = v IN SelectSeq(s, Is)
Other(s, v) == LET IsNot(w) == w # v IN SelectSeq(s, IsNot)

\* The least entry of s.
Least(s) ==
    LET vals == {s[i] : i \in 1 .. Len(s)}
    IN  CHOOSE v \in vals : \A w \in vals : FloatGeq(w, v)

\* radii_tmp.sort(): ascending.
RECURSIVE SortAsc(_)
SortAsc(s) ==
    IF s = <<>> THEN <<>>
    ELSE Equal(s, Least(s)) \o SortAsc(Other(s, Least(s)))

\* radii_tmp[::-1]
Reverse(s) == <<>> \o [i \in 1 .. Len(s) |-> s[Len(s) + 1 - i]]

\* Mutant of SortedDraws: the sorted draws are not reversed.
SortedDrawsAscending == {SortAsc(d) : d \in Choices}

\* radii: the draws sorted and reversed.
SortedDraws == {Reverse(SortAsc(d)) : d \in Choices}

\* An empty pool: min(p) raises ValueError before any radius is drawn.
SampleRadiiRaise ==
    /\ pc = "start"
    /\ NRadii <= 0
    /\ pc' = "raised"
    /\ err' = "min_of_empty_pool"
    /\ UNCHANGED <<maskimg, maskcoords, n, max_attempts, offset, maskupdate, r_min, r_max,
                   circles, radii, c, a, dwg, writes,
                   mask0, sampled, abandoned, updates, placedAtUpdate>>
    /\ UNCHANGED <<output, fout, outfn, otherVars>>

SampleRadii ==
    /\ pc = "start"
    /\ NRadii > 0
    /\ radii' \in SortedDraws
    /\ c' = 0
    /\ a' = 0
    /\ pc' = "loop"
    /\ UNCHANGED <<maskimg, maskcoords, n, max_attempts, offset, maskupdate, r_min, r_max,
                   circles, err, dwg, writes,
                   mask0, sampled, abandoned, updates, placedAtUpdate>>
    /\ UNCHANGED <<output, fout, outfn, otherVars>>

\* Mutant of GiveUp: the slot index is not advanced.
GiveUpSameSlot ==
    /\ pc = "loop"
    /\ c < n
    /\ a > max_attempts
    /\ a' = 0
    /\ sampled' = 0
    /\ UNCHANGED <<maskimg, maskcoords, n, max_attempts, offset, maskupdate, r_min, r_max,
                   circles, radii, c, pc, err, dwg, writes,
                   mask0, abandoned, updates, placedAtUpdate>>
    /\ UNCHANGED <<output, fout, outfn, otherVars>>

\* Mutant of GiveUp: the attempt counter is not reset.
GiveUpNoReset ==
    /\ pc = "loop"
    /\ c < n
    /\ a > max_attempts
    /\ c' = c + 1
    /\ sampled' = 0
    /\ abandoned' = abandoned + 1
    /\ UNCHANGED <<maskimg, maskcoords, n, max_attempts, offset, maskupdate, r_min, r_max,
                   circles, radii, a, pc, err, dwg, writes,
                   mask0, updates, placedAtUpdate>>
    /\ UNCHANGED <<output, fout, outfn, otherVars>>

\* "if a > self.max_attempts": give up with circle c.
GiveUp ==
    /\ pc = "loop"
    /\ c < n
    /\ a > max_attempts
    /\ a' = 0
    /\ c' = c + 1
    /\ sampled' = 0
    /\ abandoned' = abandoned + 1
    /\ UNCHANGED <<maskimg, maskcoords, n, max_attempts, offset, maskupdate, r_min, r_max,
                   circles, radii, pc, err, dwg, writes,
                   mask0, updates, placedAtUpdate>>
    /\ UNCHANGED <<output, fout, outfn, otherVars>>

\* An iteration that gets to sample a candidate.
Attempting == pc = "loop" /\ c < n /\ a <= max_attempts

\* Mutant of UpdateDue: the test "c>0" is left out.
UpdateDueAtZero == a = 0 /\ c % UpdatePeriod = 0 /\ maskupdate

\* "if a == 0 and c%100 == 0: ... if c>0 and self.maskupdate"
UpdateDue == a = 0 /\ c % UpdatePeriod = 0 /\ c > 0 /\ maskupdate

MaskNow == IF UpdateDue THEN UpdateMaskCoordinates ELSE maskimg
CoordsNow == IF UpdateDue THEN MaskCoords(UpdateMaskCoordinates) ELSE maskcoords

\* The part of an iteration before the candidate is drawn.
MaybeUpdate ==
    /\ maskimg' = MaskNow
    /\ maskcoords' = CoordsNow
    /\ updates' = IF UpdateDue THEN updates + 1 ELSE updates
    /\ placedAtUpdate' = IF UpdateDue THEN Len(circles) ELSE placedAtUpdate

\* Mutant of Candidate: the offset grows with the slot index.
CandidateSlotOffset(i) == Circle(CoordsNow[i], radii[c + 1], offset + c)

\* Circle(center = maskcoords[randrange(0, len(maskcoords))], r = radii[c], offset)
Candidate(i) == Circle(CoordsNow[i], radii[c + 1], offset)

OverlapsAny(circle) == \E j \in 1 .. Len(circles) : OverlapsOther(circle, circles[j])

\* random.randrange(0, 0) raises ValueError.
AttemptRaise ==
    /\ Attempting
    /\ Len(CoordsNow) = 0
    /\ MaybeUpdate
    /\ pc' = "raised"
    /\ err' = "randrange_empty_range"
    /\ UNCHANGED <<n, max_attempts, offset, maskupdate, r_min, r_max,
                   circles, radii, c, a, dwg, writes, mask0, sampled, abandoned>>
    /\ UNCHANGED <<output, fout, outfn, otherVars>>

\* The candidate drawn is not inside the mask: "a += 1".
AttemptNoFit ==
    /\ Attempting
    /\ \E i \in 1 .. Len(CoordsNow) : ~IsInsideMask(Candidate(i), MaskNow)
    /\ MaybeUpdate
    /\ a' = a + 1
    /\ sampled' = sampled + 1
    /\ UNCHANGED <<n, max_attempts, offset, maskupdate, r_min, r_max,
                   circles, radii, c, pc, err, dwg, writes, mask0, abandoned>>
    /\ UNCHANGED <<output, fout, outfn, otherVars>>

\* The candidate drawn is inside the mask and overlaps a placed circle: "a += 1".
AttemptOverlap ==
    /\ Attempting
    /\ \E i \in 1 .. Len(CoordsNow) :
          IsInsideMask(Candidate(i), MaskNow) /\ OverlapsAny(Candidate(i))
    /\ MaybeUpdate
    /\ a' = a + 1
    /\ sampled' = sampled + 1
    /\ UNCHANGED <<n, max_attempts, offset, maskupdate, r_min, r_max,
                   circles, radii, c, pc, err, dwg, writes, mask0, abandoned>>
    /\ UNCHANGED <<output, fout, outfn, otherVars>>

\* Mutant of AttemptAccept: the accepted circle is put in front of the others.
AttemptAcceptInFront ==
    /\ Attempting
    /\ \E i \in 1 .. Len(CoordsNow) :
          /\ IsInsideMask(Candidate(i), MaskNow)
          /\ ~OverlapsAny(Candidate(i))
          /\ MaybeUpdate
          /\ circles' = <<Candidate(i)>> \o circles
          /\ c' = c + 1
          /\ a' = 0
          /\ sampled' = 0
    /\ UNCHANGED <<n, max_attempts, offset, maskupdate, r_min, r_max,
                   radii, pc, err, dwg, writes, mask0, abandoned>>
    /\ UNCHANGED <<output, fout, outfn, otherVars>>

\* The candidate drawn is inside the mask and overlaps no placed circle.
AttemptAccept ==
    /\ Attempting
    /\ \E i \in 1 .. Len(CoordsNow) :
          /\ IsInsideMask(Candidate(i), MaskNow)
          /\ ~OverlapsAny(Candidate(i))
          /\ MaybeUpdate
          /\ circles' = Append(circles, Candidate(i))
          /\ c' = c + 1
          /\ a' = 0
          /\ sampled' = 0
    /\ UNCHANGED <<n, max_attempts, offset, maskupdate, r_min, r_max,
                   radii, pc, err, dwg, writes, mask0, abandoned>>
    /\ UNCHANGED <<output, fout, outfn, otherVars>>

\* "while c < self.n" is false: place_circles returns.
LoopExit ==
    /\ pc = "loop"
    /\ c >= n
    /\ pc' = "placed"
    /\ UNCHANGED <<maskimg, maskcoords, n, max_attempts, offset, maskupdate, r_min, r_max,
                   circles, radii, c, a, err, dwg, writes,
                   mask0, sampled, abandoned, updates, placedAtUpdate>>
    /\ UNCHANGED <<output, fout, outfn, otherVars>>

\* ------------------------------------------------------------ draw_svg
RectShape == [shape |-> "rect", x |-> 0, y |-> 0, w |-> Width, h |-> Height, r |-> 0]

CircleShape(circle) ==
    [shape |-> "circle", x |-> circle.x, y |-> circle.y, w |-> 0, h |-> 0, r |-> circle.radius]

\* Mutant of Drawing: the background rectangle is added after the circles.
DrawingRectLast(cs) == [i \in 1 .. Len(cs) |-> CircleShape(cs[i])] \o <<RectShape>>

\* The elements added to the drawing, in order.
Drawing(cs) == <<RectShape>> \o [i \in 1 .. Len(cs) |-> CircleShape(cs[i])]

DrawSvg ==
    /\ pc = "placed"
    /\ outfn' = SvgName(fout)
    /\ dwg' = Drawing(circles)
    /\ writes' = writes + 1
    /\ pc' = "saved"
    /\ UNCHANGED <<maskimg, maskcoords, n, max_attempts, offset, maskupdate, r_min, r_max,
                   circles, radii, c, a, err,
                   mask0, sampled, abandoned, updates, placedAtUpdate>>
    /\ UNCHANGED <<output, fout, otherVars>>

Next ==
    \/ SampleRadiiRaise
    \/ SampleRadii
    \/ GiveUp
    \/ AttemptRaise
    \/ AttemptNoFit
    \/ AttemptOverlap
    \/ AttemptAccept
    \/ LoopExit
    \/ DrawSvg

Spec == Init /\ [][Next]_vars

\* The interpreter runs the next statement whenever there is one.
FairSpec == InitFair /\ [][Next]_vars /\ WF_vars(Next)


\* A run with n = 0: the radii are sampled, the loop is left at once and the
\* drawing is written.
NextPath ==
    \/ SampleRadii
    \/ LoopExit
    \/ DrawSvg

SpecPath == InitPath /\ [][NextPath]_vars

\* ------------------------------------------------------------ overlaps_other
\* A call of Circle.overlaps_other on two circles of any offsets.
Circles ==
    {Circle(<<x, y>>, <<r, FALSE>>, off) :
        x \in 0 .. Width - 1, y \in 0 .. Height - 1, r \in RVals, off \in 0 .. MaxOffset}

InitOverlap ==
    /\ CloudIdle
    /\ ArrowsIdle
    /\ pc = "constructed"
    /\ self \in Circles
    /\ other \in Circles
    /\ overlaps = FALSE

OverlapsCall ==
    /\ pc = "constructed"
    /\ overlaps' = OverlapsOther(self, other)
    /\ pc' = "compared"
    /\ UNCHANGED <<cloudData, err, self, other, arrowVars>>

NextOverlap == OverlapsCall

SpecOverlap == InitOverlap /\ [][NextOverlap]_vars

\* ------------------------------------------------------------ perlin_noise_arrows
\* A coordinate is <<whole, tip>>: a whole number of mm plus, for the ends c
\* and d of the tips, the component of the tip vector ("c", "d"; "-c", "-d"
\* once flipped).  A point is <<x, y>> of two coordinates.
Coord(k) == <<k, "">>
Pt(x, y) == <<Coord(x), Coord(y)>>
TipPt(b, tip) == <<<<b[1][1], tip>>, <<b[2][1], tip>>>>

\* img_height - y
Neg(tip) == CASE tip = "" -> "" [] tip = "c" -> "-c" [] tip = "d" -> "-d"
Flip(img_height, y) == <<img_height - y[1], Neg(y[2])>>

\* np.cos and np.sin of np.radians(deg), for the quarter turns.
Dirs == {0, 90, 180, 270}
Cos(deg) == CASE deg = 0 -> 1 [] deg = 90 -> 0 [] deg = 180 -> -1 [] deg = 270 -> 0
Sin(deg) == CASE deg = 0 -> 0 [] deg = 90 -> 1 [] deg = 180 -> 0 [] deg = 270 -> -1

\* Arrow.__init__: b = a + [length, 0].dot(R); the tips c and d are set only
\* if tiplength > 0.
Arrow(id, ax, ay, length, dir, tiplength) ==
    LET b == Pt(ax + length * Cos(dir), ay - length * Sin(dir))
    IN  IF tiplength > 0
        THEN [arrow_id |-> id, a |-> Pt(ax, ay), b |-> b, hastip |-> TRUE,
              c |-> TipPt(b, "c"), d |-> TipPt(b, "d")]
        ELSE [arrow_id |-> id, a |-> Pt(ax, ay), b |-> b, hastip |-> FALSE]

\* hasattr(arrow, name)
HasAttr(arrow, name) == name \in DOMAIN arrow

\* dwg.line(start, end)
Line(start, end) == [start |-> start, end |-> end]

\* Arrow.draw_to_svg: the group added to the drawing.
DrawToSvg(arrow) ==
    [id |-> "hlines",
     lines |-> <<Line(arrow.a, arrow.b)>>
               \o (IF arrow.hastip
                   THEN <<Line(arrow.b, arrow.c), Line(arrow.b, arrow.d)>>
                   ELSE <<>>)]

\* draw_svg_rectangle
DrawSvgRectangle(ul, w, h, border) ==
    LET pt1 == Pt(ul[1] - border, ul[2] - border)
        pt2 == Pt(ul[1] - border, ul[2] + h + border)
        pt3 == Pt(ul[1] + w + border, ul[2] + h + border)
        pt4 == Pt(ul[1] + w + border, ul[2] - border)
    IN  [id |-> "rlines",
         lines |-> <<Line(pt1, pt2), Line(pt2, pt3), Line(pt3, pt4), Line(pt4, pt1)>>]

\* One line of G-code: the command word g, the feed rate F, the S word and
\* the X and Y words, 0 and <<>> where the line has none.
Cmd(g, f, s, x, y) == [g |-> g, f |-> f, s |-> s, x |-> x, y |-> y]
Blank == Cmd("", 0, 0, <<>>, <<>>)
Comment == Cmd(";", 0, 0, <<>>, <<>>)

\* --pen_up and --pen_down, defaults.
pen_up == <<Cmd("M3", 0, PenUpS, <<>>, <<>>), Cmd("G4", 0, 0, <<>>, <<>>)>>
pen_down == <<Cmd("M3", 0, PenDownS, <<>>, <<>>), Cmd("G4", 0, 0, <<>>, <<>>)>>

\* Mutant of GcodeDrawArrow: the pen stays down after the shaft.
GcodeDrawArrowPenKeptDown(arrow, pendown, penup, img_height) ==
    LET ay == IF img_height # 0 THEN Flip(img_height, arrow.a[2]) ELSE arrow.a[2]
        by == IF img_height # 0 THEN Flip(img_height, arrow.b[2]) ELSE arrow.b[2]
        cy == IF img_height # 0 THEN Flip(img_height, arrow.c[2]) ELSE arrow.c[2]
        dy == IF img_height # 0 THEN Flip(img_height, arrow.d[2]) ELSE arrow.d[2]
    IN  <<Comment, Cmd("G0", G0Speed, 0, arrow.a[1], ay)>>
        \o pendown
        \o <<Cmd("G1", 0, 0, arrow.b[1], by)>>
        \o (IF arrow.hastip
            THEN <<Cmd("G0", G0Speed, 0, arrow.c[1], cy)>>
                 \o pendown
                 \o <<Cmd("G1", G1Speed, 0, arrow.c[1], cy),
                      Cmd("G1", 0, 0, arrow.b[1], by),
                      Cmd("G1", 0, 0, arrow.d[1], dy)>>
                 \o penup
            ELSE <<>>)
        \o <<Blank>>

\* Arrow.gcode_draw_arrow, for an arrow that has c and d.
GcodeDrawArrow(arrow, pendown, penup, img_height) ==
    LET ay == IF img_height # 0 THEN Flip(img_height, arrow.a[2]) ELSE arrow.a[2]
        by == IF img_height # 0 THEN Flip(img_height, arrow.b[2]) ELSE arrow.b[2]
        cy == IF img_height # 0 THEN Flip(img_height, arrow.c[2]) ELSE arrow.c[2]
        dy == IF img_height # 0 THEN Flip(img_height, arrow.d[2]) ELSE arrow.d[2]
    IN  <<Comment, Cmd("G0", G0Speed, 0, arrow.a[1], ay)>>
        \o pendown
        \o <<Cmd("G1", 0, 0, arrow.b[1], by)>>
        \o penup
        \o (IF arrow.hastip
            THEN <<Cmd("G0", G0Speed, 0, arrow.c[1], cy)>>
                 \o pendown
                 \o <<Cmd("G1", G1Speed, 0, arrow.c[1], cy),
                      Cmd("G1", 0, 0, arrow.b[1], by),
                      Cmd("G1", 0, 0, arrow.d[1], dy)>>
                 \o penup
            ELSE <<>>)
        \o <<Blank>>

\* get_gcode_rectangle
GetGcodeRectangle(ll, w, h, border, pendown, penup) ==
    <<Blank, Comment,
      Cmd("G0", RectG0Speed, 0, Coord(ll[1] - border), Coord(ll[2] - border))>>
    \o pendown
    \o <<Cmd("G1", RectG1Speed, 0, Coord(ll[1] - border), Coord(h - ll[2] + border)),
         Cmd("G1", RectG1Speed, 0, Coord(ll[1] + w + border), Coord(h - ll[2] + border)),
         Cmd("G1", RectG1Speed, 0, Coord(ll[1] + w + border), Coord(ll[2] - border)),
         Cmd("G1", RectG1Speed, 0, Coord(ll[1] - border), Coord(ll[2] - border))>>
    \o penup

\* main: the G-code before the drawing starts.
Header ==
    <<Blank, Comment, Comment,
      Cmd("G21", 0, 0, <<>>, <<>>), Cmd("G54", 0, 0, <<>>, <<>>),
      Cmd("G21", 0, 0, <<>>, <<>>), Cmd("G90", 0, 0, <<>>, <<>>),
      Comment,
      Cmd("M3", 0, 120, <<>>, <<>>),
      Cmd("G0", 0, 0, <<>>, <<>>),
      Cmd("G0", G0Speed, 0, Coord(config.offset[1]), Coord(config.offset[2])),
      Cmd("G1", G1Speed, 0, <<>>, <<>>),
      Blank>>

\* "G0 F{} X0 Y0; go to 0/0"
Home == Cmd("G0", G0Speed, 0, Coord(0), Coord(0))

\* The command lines the model runs.
Steps == 1 .. 2
Configs ==
    [width : 0 .. MaxField, height : 0 .. MaxField, stepsize : Steps,
     offset : {<<0, 0>>, <<1, 1>>}, border : 0 .. 1, rect_only : BOOLEAN,
     tiplength : -1 .. 1, tiptype : {"rel", "abs"}]

\* W = int(width/stepsize)+1, H = int(height/stepsize)+1
W == config.width \div config.stepsize + 1
H == config.height \div config.stepsize + 1

\* The fields of angles the noise can give.  Enumerated: a quarter turn to
\* start with, and the same quarter turn or none from each arrow to the next.
AngleFields ==
    {[i \in 1 .. W * H |-> (t[1] + t[2] * (i - 1)) % 360] : t \in Dirs \X {0, 90}}

\* Arrow((x,y), length=arrowlength, dir=angles[c], tiplength=tiplength), for
\* c = arrow_counter.
NextArrow ==
    Arrow(arrow_counter + 1,
          (arrow_counter % W) * config.stepsize + config.offset[1],
          (arrow_counter \div W) * config.stepsize + config.offset[2],
          ArrowLength, angles[arrow_counter + 1], config.tiplength)

InitArrows ==
    /\ CloudIdle
    /\ OverlapIdle
    /\ pc = "main"
    /\ config \in Configs
    /\ angles = <<>>
    /\ arrow_counter = 0
    /\ arrow_dwg = <<>>
    /\ gcode_string = <<>>

\* The ValueErrors main raises.
BadConfig ==
    \/ config.width % config.stepsize # 0
    \/ config.height % config.stepsize # 0
    \/ config.tiptype = "rel" /\ (config.tiplength > 1 \/ config.tiplength < 0)

MainRaise ==
    /\ pc = "main"
    /\ BadConfig
    /\ pc' = "raised"
    /\ err' = "ValueError"
    /\ UNCHANGED <<cloudData, overlapVars, arrowVars>>

\* "collect angles for 2D arrow field into a list"
CollectAngles ==
    /\ pc = "main"
    /\ ~BadConfig
    /\ angles' \in AngleFields
    /\ pc' = "svg"
    /\ UNCHANGED <<cloudData, err, overlapVars, config, arrow_counter, arrow_dwg, gcode_string>>

\* One pass of the loop that draws the arrows into the SVG drawing.
SvgArrow ==
    /\ pc = "svg"
    /\ ~config.rect_only
    /\ arrow_counter < W * H
    /\ arrow_dwg' = Append(arrow_dwg, DrawToSvg(NextArrow))
    /\ arrow_counter' = arrow_counter + 1
    /\ UNCHANGED <<cloudData, pc, err, overlapVars, config, angles, gcode_string>>

\* The loop is over: the rectangle if there is a border, and dwg.save().
SvgSave ==
    /\ pc = "svg"
    /\ config.rect_only \/ arrow_counter = W * H
    /\ arrow_dwg' =
          IF config.border # 0
          THEN Append(arrow_dwg,
                      DrawSvgRectangle(config.offset, config.width, config.height, config.border))
          ELSE arrow_dwg
    /\ pc' = "gcode"
    /\ UNCHANGED <<cloudData, err, overlapVars, config, angles, arrow_counter, gcode_string>>

\* "Arrow.arrow_counter = 0" and the header.
GcodeHeader ==
    /\ pc = "gcode"
    /\ arrow_counter' = 0
    /\ gcode_string' = Header
    /\ pc' = "gcode_arrows"
    /\ UNCHANGED <<cloudData, err, overlapVars, config, angles, arrow_dwg>>

\* One pass of the loop that adds the G-code of the arrows.
GcodeArrow ==
    /\ pc = "gcode_arrows"
    /\ ~config.rect_only
    /\ arrow_counter < W * H
    /\ HasAttr(NextArrow, "c")
    /\ gcode_string' = gcode_string
          \o GcodeDrawArrow(NextArrow, pen_down, pen_up, config.height + 2 * config.offset[2])
    /\ arrow_counter' = arrow_counter + 1
    /\ UNCHANGED <<cloudData, pc, err, overlapVars, config, angles, arrow_dwg>>

\* gcode_draw_arrow reads self.c of an arrow without tips: AttributeError.
GcodeArrowRaise ==
    /\ pc = "gcode_arrows"
    /\ ~config.rect_only
    /\ arrow_counter < W * H
    /\ ~HasAttr(NextArrow, "c")
    /\ arrow_counter' = arrow_counter + 1
    /\ pc' = "raised"
    /\ err' = "AttributeError"
    /\ UNCHANGED <<cloudData, overlapVars, config, angles, arrow_dwg, gcode_string>>

\* The loop is over: the rectangle if there is a border, the move home, and
\* save_gcode_to_file.
GcodeSave ==
    /\ pc = "gcode_arrows"
    /\ config.rect_only \/ arrow_counter = W * H
    /\ gcode_string' = gcode_string
          \o (IF config.border # 0
              THEN GetGcodeRectangle(config.offset, config.width,
                                     config.height + 2 * config.offset[2], config.border,
                                     pen_down, pen_up)
              ELSE <<>>)
          \o <<Home>>
    /\ pc' = "gcode_saved"
    /\ UNCHANGED <<cloudData, err, overlapVars, config, angles, arrow_counter, arrow_dwg>>

NextArrows ==
    \/ MainRaise
    \/ CollectAngles
    \/ SvgArrow
    \/ SvgSave
    \/ GcodeHeader
    \/ GcodeArrow
    \/ GcodeArrowRaise
    \/ GcodeSave

SpecArrows == InitArrows /\ [][NextArrows]_vars

\* ------------------------------------------------------------ properties
EmptyMask == \A p \in Pixels : mask0[p] = Black

\* The distance of the centres of A and B is at least the sum of the radii plus A's offset.
Clear(A, B) ==
    LET s == A.radius + B.radius + A.offset
    IN  Dist2(A, B) >= s * s

\* C1: at every moment of place_circles and in the completed cloud, every
\* accepted circle A and every circle B accepted before it have centres at
\* distance >= A.radius + B.radius + A.offset.
C1_Clearance ==
    \A j \in 1 .. Len(circles) : \A i \in 1 .. j - 1 : Clear(circles[j], circles[i])

\* Two circles placed with a positive offset, exactly at the required distance.
C1_Witness ==
    /\ offset > 0
    /\ \E j \in 1 .. Len(circles) : \E i \in 1 .. j - 1 :
          Dist2(circles[j], circles[i])
              = (circles[j].radius + circles[i].radius + offset)
                * (circles[j].radius + circles[i].radius + offset)

\* C2: every pixel of the rasterized disk of every accepted circle is an
\* allowed pixel of the mask as the constructor built it, also after
\* update_mask_coordinates has run.
C2_InsideOriginalMask ==
    \A i \in 1 .. Len(circles) :
        \A p \in Disk(circles[i].x, circles[i].y, circles[i].radius) : mask0[p] = White

\* An update has burned a placed circle into the mask and a circle was accepted after it.
C2_Witness ==
    /\ updates >= 1
    /\ placedAtUpdate >= 1
    /\ Len(circles) > placedAtUpdate

\* C3: every accepted circle lies within the bounds of the mask grid:
\* x - radius >= 0, y - radius >= 0, x + radius <= width - 1, y + radius <= height - 1.
C3_WithinGrid ==
    \A i \in 1 .. Len(circles) :
        /\ circles[i].x - circles[i].radius >= 0
        /\ circles[i].y - circles[i].radius >= 0
        /\ circles[i].x + circles[i].radius <= Width - 1
        /\ circles[i].y + circles[i].radius <= Height - 1

\* C4: on a mask without allowed pixels place_circles (given a radius range it
\* can sample from) raises nothing and accepts no circle, whatever n is.
C4_EmptyMaskNoError ==
    (EmptyMask /\ NRadii > 0) => (err = "none" /\ circles = <<>>)

\* C5: with r_min = r_max the radius sampling succeeds, and every one of the n
\* sampled radii equals that value.
C5_EqualRadiiSampled ==
    (r_min = r_max) =>
        /\ err = "none"
        /\ pc # "start" => (Len(radii) = n /\ \A i \in 1 .. n : radii[i] = <<r_min, FALSE>>)

\* C6: on a mask with an allowed pixel the placement loop ends, and it ends
\* exactly when the slot index is n, every slot accepted or abandoned.
C6_LoopTerminates ==
    /\ [](pc = "placed" => (c = n /\ Len(circles) + abandoned = n))
    /\ [][(pc = "loop" /\ pc' # "loop" /\ ~EmptyMask) => (c = n /\ pc' = "placed")]_vars
    /\ (pc = "loop" /\ ~EmptyMask) ~> (pc = "placed")

\* The loop has ended on a mask with allowed pixels where no candidate ever fitted.
C6_Witness ==
    /\ pc = "placed"
    /\ ~EmptyMask
    /\ n >= 2
    /\ abandoned = n

\* C7: for every slot at most max_attempts candidates are sampled.
C7_AtMostMaxAttempts == sampled <= max_attempts

\* C8: when the attempt counter exceeds max_attempts the slot is given up
\* without an exception: no circle is appended, the attempt counter is reset to
\* 0 and the slot index advances by one; the slot index never goes back, and
\* the number of accepted circles never exceeds n.
C8_GiveUpSkipsSlot ==
    /\ [][(pc = "loop" /\ c < n /\ a > max_attempts) =>
             (circles' = circles /\ a' = 0 /\ c' = c + 1 /\ pc' = "loop" /\ err' = "none")]_vars
    /\ [][c' >= c]_vars
    /\ [](Len(circles) <= n)

\* A run has ended with a slot given up and fewer than n circles, but not none.
C8_Witness ==
    /\ pc = "placed"
    /\ abandoned > 0
    /\ Len(circles) > 0
    /\ Len(circles) < n

\* C9: a run of update_mask_coordinates with at least one placed circle leaves
\* the pool of allowed coordinates strictly smaller, with no coordinate that a
\* placed circle covers.
C9_UpdateShrinksPool ==
    [][(updates' = updates + 1 /\ Len(circles) >= 1) =>
          /\ Len(maskcoords') < Len(maskcoords)
          /\ \A k \in 1 .. Len(maskcoords') : \A i \in 1 .. Len(circles) :
                Pix(maskcoords'[k][1], maskcoords'[k][2])
                    \notin Disk(circles[i].x, circles[i].y, circles[i].radius)]_vars

\* C10: the drawing is written once, only after place_circles has returned,
\* and holds the background rectangle followed by one circle per accepted
\* circle, in placement order.
C10_WrittenOnceAfterLoop ==
    /\ writes <= 1
    /\ (writes = 1) <=> (pc = "saved")
    /\ pc # "saved" => dwg = <<>>
    /\ pc = "saved" =>
          /\ c = n
          /\ Len(dwg) = 1 + Len(circles)
          /\ dwg[1].shape = "rect"
          /\ \A i \in 1 .. Len(circles) :
                /\ dwg[i + 1].shape = "circle"
                /\ dwg[i + 1].x = circles[i].x
                /\ dwg[i + 1].y = circles[i].y
                /\ dwg[i + 1].r = circles[i].radius

\* The drawing was written for a run that placed some but not all of the n circles.
C10_Witness ==
    /\ pc = "saved"
    /\ writes = 1
    /\ Len(circles) > 0
    /\ Len(circles) < n

\* C12: the radius sequence place_circles uses has exactly n entries in
\* non-increasing order, an accepted circle takes the entry of its slot, and
\* the accepted circles are at all times in non-increasing radius order,
\* whatever slots were given up in between.
C12_LargestFirst ==
    /\ []((pc # "start" /\ err # "min_of_empty_pool") =>
             /\ Len(radii) = n
             /\ \A i \in 1 .. n - 1 : FloatGeq(radii[i], radii[i + 1]))
    /\ [][circles' # circles =>
             /\ Len(circles') = Len(circles) + 1
             /\ circles'[Len(circles')].radius = radii[c + 1][1]]_vars
    /\ [](\A i \in 1 .. Len(circles) - 1 : circles[i].radius >= circles[i + 1].radius)

\* A finished run that placed a larger circle and then a smaller one.
C12_Witness ==
    /\ pc = "placed"
    /\ Len(circles) = 2
    /\ circles[1].radius > circles[2].radius

\* C14: an attempt with a candidate is one of two steps.  A candidate that is
\* not inside the mask or overlaps a placed circle leaves the accepted circles
\* and the slot index as they are and adds exactly 1 to the attempt counter; a
\* candidate inside the mask that overlaps none is appended as the last circle,
\* the attempt counter becomes 0 and the slot index advances by exactly 1.
\* No step removes, reorders or modifies a circle accepted before.
C14_AttemptFrame ==
    /\ [][(Attempting /\ Len(CoordsNow) > 0) =>
             \/ /\ \E i \in 1 .. Len(CoordsNow) :
                      ~IsInsideMask(Candidate(i), MaskNow) \/ OverlapsAny(Candidate(i))
                /\ circles' = circles
                /\ c' = c
                /\ a' = a + 1
             \/ /\ \E i \in 1 .. Len(CoordsNow) :
                      /\ IsInsideMask(Candidate(i), MaskNow)
                      /\ ~OverlapsAny(Candidate(i))
                      /\ circles' = Append(circles, Candidate(i))
                /\ c' = c + 1
                /\ a' = 0]_vars
    /\ [][/\ Len(circles') >= Len(circles)
          /\ SubSeq(circles', 1, Len(circles)) = circles]_vars

\* A candidate has failed after a circle was accepted: both steps have been taken.
C14_Witness ==
    /\ pc = "loop"
    /\ Len(circles) >= 1
    /\ a >= 1
    /\ sampled >= 1

\* C16: with the mask update enabled an update runs exactly when the number
\* of accepted circles reaches a positive multiple of 100, slots given up not
\* counting; with the option disabled no update ever runs and the mask and the
\* pool stay as constructed.
C16_UpdateEvery100Accepted ==
    /\ [][updates' = updates + 1 =>
             (Len(circles) > 0 /\ Len(circles) % UpdatePeriod = 0)]_vars
    /\ [](~maskupdate =>
             (updates = 0 /\ maskimg = mask0 /\ maskcoords = MaskCoords(mask0)))

\* C16, amended: with the mask update enabled an update runs exactly at the
\* first attempt of every slot whose index is a positive multiple of 100,
\* slots given up counting like slots accepted; with the option disabled no
\* update ever runs and the mask and the pool stay as constructed.
C16_UpdateEvery100Slots ==
    /\ [][(updates' = updates + 1) <=>
             (pc = "loop" /\ c < n /\ a = 0 /\ c > 0 /\ c % UpdatePeriod = 0 /\ maskupdate)]_vars
    /\ [][updates' = updates \/ updates' = updates + 1]_vars
    /\ [](~maskupdate =>
             (updates = 0 /\ maskimg = mask0 /\ maskcoords = MaskCoords(mask0)))

\* An update has run at slot 100 of a run that gave up slots and accepted
\* fewer than 100 circles.
C16_Witness ==
    /\ updates = 1
    /\ c >= UpdatePeriod
    /\ abandoned >= 1
    /\ Len(circles) < UpdatePeriod

\* C18: the offset of the cloud does not change during a run and every
\* accepted circle carries it, so for any two accepted circles the overlap
\* test gives the same answer in both directions and the clearance holds with
\* either circle's offset.
C18_OffsetShared ==
    /\ [][offset' = offset]_vars
    /\ [](\A i \in 1 .. Len(circles) : circles[i].offset = offset)
    /\ [](\A i \in 1 .. Len(circles) : \A j \in 1 .. Len(circles) :
             /\ OverlapsOther(circles[i], circles[j]) = OverlapsOther(circles[j], circles[i])
             /\ i # j => Clear(circles[i], circles[j]))

\* A finished run that placed two circles with a positive offset.
C18_Witness ==
    /\ pc = "placed"
    /\ offset > 0
    /\ Len(circles) >= 2

\* C15: overlaps_other(A, B) is true exactly when the distance d of the
\* centres is less than A.radius + B.radius + A.offset, whatever the offset
\* of B is; two circles at exactly that distance do not overlap.
C15_OverlapStrictOwnOffset ==
    pc = "compared" =>
        LET s == self.radius + other.radius + self.offset
        IN  /\ overlaps <=> (Dist2(self, other) < s * s)
            /\ (Dist2(self, other) = s * s) => ~overlaps

\* A call on two circles of different offsets at exactly the required distance.
C15_Witness ==
    /\ pc = "compared"
    /\ self.offset # other.offset
    /\ Dist2(self, other)
          = (self.radius + other.radius + self.offset) * (self.radius + other.radius + self.offset)
    /\ ~overlaps

\* C11: whatever output path is requested, the extension handling of run() and
\* draw_svg raises nothing, the path written ends in ".svg", a requested path
\* that already ends in ".svg" is the path written, and the correction applied
\* to a corrected path changes nothing.
C11_SvgPathKept ==
    /\ err = "none"
    /\ EndsWith(fout, DotSvg)
    /\ OutputName(fout) = fout
    /\ EndsWith(output, DotSvg) => fout = output
    /\ pc = "saved" =>
          /\ EndsWith(outfn, DotSvg)
          /\ outfn = fout
          /\ SvgName(outfn) = outfn

\* C13: an arrow constructed with tiplength <= 0 is a simple line: draw_to_svg
\* and gcode_draw_arrow, with or without img_height, complete without an
\* error, and what they emit holds the segment a->b and no tip segment.
C13_TiplessArrowIsLine ==
    config.tiplength <= 0 =>
        /\ err # "AttributeError"
        /\ \A i \in 1 .. Len(arrow_dwg) :
              arrow_dwg[i].id = "hlines" => Len(arrow_dwg[i].lines) = 1
        /\ \A i \in 1 .. Len(gcode_string) :
              gcode_string[i].x = <<>> \/ gcode_string[i].x[2] = ""
        /\ (pc = "gcode_saved" /\ ~config.rect_only) =>
              \E i \in 1 .. Len(gcode_string) :
                  gcode_string[i].g = "G1" /\ gcode_string[i].x # <<>>

\* The pen as the lines up to line i leave it, checked line by line: up at
\* every G0, and put down only on the line after a G0.
RECURSIVE PenScan(_, _, _, _)
PenScan(lines, i, pen, prev) ==
    IF i > Len(lines) THEN TRUE
    ELSE /\ lines[i].g = "G0" => pen = "up"
         /\ (lines[i].g = "M3" /\ lines[i].s = PenDownS) => prev = "G0"
         /\ PenScan(lines, i + 1,
                    IF lines[i].g # "M3" THEN pen
                    ELSE IF lines[i].s = PenUpS THEN "up"
                    ELSE IF lines[i].s = PenDownS THEN "down"
                    ELSE pen,
                    lines[i].g)

\* C19: in the G-code of main (header, arrows with tips in row-major order,
\* the rectangle if there is a border, the move home) the pen is up at every
\* G0: the pen is put down only on the line after a G0, it is up again
\* before the next G0, and the last line is the G0 to X0 Y0, pen up.
C19_PenUpOnRapid ==
    /\ PenScan(gcode_string, 1, "unknown", "")
    /\ pc = "gcode_saved" => gcode_string[Len(gcode_string)] = Home

\* The G-code of a field of several arrows with tips and a border is complete.
C19_Witness ==
    /\ pc = "gcode_saved"
    /\ ~config.rect_only
    /\ config.border # 0
    /\ config.tiplength > 0
    /\ arrow_counter >= 2
    /\ \E i \in 1 .. Len(gcode_string) : gcode_string[i].x # <<>> /\ gcode_string[i].x[2] = "d"

=============================================================================
